---------------------------- MODULE Spec2Model ----------------------------
(***************************************************************************)
(* LazyWin11Installer (installer.py): the interactive selector, the winget *)
(* adapter, the Tron fetcher, the elevation handoff and the main flow, as  *)
(* a state machine.  External commands, the operating system and the user  *)
(* are the environment: their answers are drawn with \E.                   *)
(***************************************************************************)
EXTENDS Integers, Sequences, FiniteSets, TLC

(***************************************************************************)
(* Bounds of the model.                                                    *)
(***************************************************************************)
\* longest input line typed at a prompt
MaxLineLen == 2
\* largest retries argument given to winget_install when it is called alone
MaxRetries == 2

(***************************************************************************)
(* Program constants.                                                      *)
(***************************************************************************)
\* winget_install(pkg_id, retries=1)
DefaultRetries == 1
\* time.sleep(2)
SleepSecs == 2

\* Python's None
NoneVal == "<None>"

(***************************************************************************)
(* Static tables.  A dict is kept as its key order plus its mapping.       *)
(***************************************************************************)
PresetNames ==
  << "Gamer", "Developer", "Secondary PC", "Streamer / Content Creator",
     "Productivity / School", "Clean Minimalist", "Work / Corporate",
     "Kids / Family Mode" >>

PRESETS ==
  [ n \in {PresetNames[i] : i \in 1..Len(PresetNames)} |->
    CASE n = "Gamer" ->
           << "Valve.Steam", "Roblox.Roblox", "Moonsworth.LunarClient" >>
      [] n = "Developer" ->
           << "Python.Python.3", "Microsoft.VisualStudio.2022.Community",
              "Microsoft.VisualStudioCode", "Git.Git", "OpenJS.NodeJS" >>
      [] n = "Secondary PC" ->
           << "7zip.7zip", "VideoLAN.VLC", "Mozilla.Firefox", "Google.Chrome",
              "Notepad++.Notepad++" >>
      [] n = "Streamer / Content Creator" ->
           << "OBSProject.OBSStudio", "Streamlabs.Streamlabs", "Discord.Discord",
              "Audacity.Audacity", "DaVinciResolve.DaVinciResolve",
              "Spotify.Spotify", "VideoLAN.VLC" >>
      [] n = "Productivity / School" ->
           << "Microsoft.Office", "Notion.Notion", "Google.Drive", "Zoom.Zoom",
              "Spotify.Spotify" >>
      [] n = "Clean Minimalist" ->
           << "7zip.7zip", "Notepad++.Notepad++", "Mozilla.Firefox",
              "voidtools.Everything", "VideoLAN.VLC" >>
      [] n = "Work / Corporate" ->
           << "Google.Chrome", "Microsoft.Office", "Microsoft.Teams", "Zoom.Zoom",
              "SlackTechnologies.Slack", "Git.Git" >>
      [] n = "Kids / Family Mode" ->
           << "Minecraft.MinecraftLauncher", "Roblox.Roblox", "Google.Chrome",
              "Spotify.Spotify", "VideoLAN.VLC" >> ]

AntivirusLabels == << "None", "Malwarebytes", "Avast", "Bitdefender" >>

ANTIVIRUS_OPTIONS ==
  [ l \in {AntivirusLabels[i] : i \in 1..Len(AntivirusLabels)} |->
    CASE l = "None" -> NoneVal
      [] l = "Malwarebytes" -> "Malwarebytes.Malwarebytes"
      [] l = "Avast" -> "Avast.AntivirusFree"
      [] l = "Bitdefender" -> "Bitdefender.TotalSecurity" ]

BrowserLabels == << "Edge (keep default)", "Chrome", "Firefox", "Firefox Nightly" >>

BROWSERS ==
  [ l \in {BrowserLabels[i] : i \in 1..Len(BrowserLabels)} |->
    CASE l = "Edge (keep default)" -> NoneVal
      [] l = "Chrome" -> "Google.Chrome"
      [] l = "Firefox" -> "Mozilla.Firefox"
      [] l = "Firefox Nightly" -> "Mozilla.Firefox.Nightly" ]

\* the option lists main hands to ask
PresetMenu == PresetNames \o << "None" >>
TronMenu == << "No", "Yes" >>
Menus == { PresetMenu, BrowserLabels, AntivirusLabels, TronMenu }

SeqRange(s) == { s[i] : i \in 1..Len(s) }

AllPkgs ==
  ( (UNION { SeqRange(PRESETS[n]) : n \in DOMAIN PRESETS })
      \cup { BROWSERS[l] : l \in DOMAIN BROWSERS }
      \cup { ANTIVIRUS_OPTIONS[l] : l \in DOMAIN ANTIVIRUS_OPTIONS } )
    \ { NoneVal }

(***************************************************************************)
(* Input lines.  A line is a sequence of characters.  "sup2" stands for    *)
(* U+00B2 SUPERSCRIPT TWO: str.isdigit() accepts it and int() does not.    *)
(***************************************************************************)
AsciiDigits == { "0", "1", "2", "3", "4", "5", "6", "7", "8", "9" }
Whitespace == { " " }
Chars == AsciiDigits \cup Whitespace \cup { "a", "+", "sup2" }

Lines == UNION { [1..n -> Chars] : n \in 0..MaxLineLen }

DigitValue(c) ==
  CASE c = "0" -> 0 [] c = "1" -> 1 [] c = "2" -> 2 [] c = "3" -> 3
    [] c = "4" -> 4 [] c = "5" -> 5 [] c = "6" -> 6 [] c = "7" -> 7
    [] c = "8" -> 8 [] c = "9" -> 9

RECURSIVE LStrip(_)
LStrip(s) ==
  IF s # << >> /\ Head(s) \in Whitespace THEN LStrip(Tail(s)) ELSE s

RECURSIVE RStrip(_)
RStrip(s) ==
  IF s # << >> /\ s[Len(s)] \in Whitespace
    THEN RStrip(SubSeq(s, 1, Len(s) - 1))
    ELSE s

\* str.strip()
Strip(s) == RStrip(LStrip(s))

\* str.isdigit(): non-empty and every character has the Unicode property
\* Numeric_Type Digit or Decimal
IsDigit(s) == s # << >> /\ \A i \in 1..Len(s) : s[i] \in AsciiDigits \cup { "sup2" }

RECURSIVE DecValue(_)
DecValue(s) ==
  IF s = << >> THEN 0
  ELSE 10 * DecValue(SubSeq(s, 1, Len(s) - 1)) + DigitValue(s[Len(s)])

\* int(str): surrounding whitespace, an optional sign, then decimal digits;
\* anything else raises ValueError (ok = FALSE)
PyInt(s) ==
  LET t == Strip(s)
      signed == t # << >> /\ Head(t) \in { "+", "-" }
      body == IF signed THEN Tail(t) ELSE t
  IN  IF body # << >> /\ \A i \in 1..Len(body) : body[i] \in AsciiDigits
        THEN [ ok |-> TRUE,
               val |-> IF signed /\ Head(t) = "-" THEN 0 - DecValue(body)
                       ELSE DecValue(body) ]
        ELSE [ ok |-> FALSE, val |-> 0 ]

\* One pass of ask's loop on the line just read: return an option, print the
\* invalid-choice message and read again, or let int()'s ValueError escape.
AskResult(l, opts) ==
  LET choice == Strip(l)
      invalid == [ kind |-> "invalid", value |-> NoneVal ]
  IN  IF IsDigit(choice)
        THEN LET p == PyInt(choice)
                 ix == p.val - 1
             IN  IF ~p.ok THEN [ kind |-> "raise", value |-> "ValueError" ]
                 ELSE IF 0 <= ix /\ ix < Len(opts)
                   THEN [ kind |-> "return", value |-> opts[ix + 1] ]
                   ELSE invalid
        ELSE invalid

(***************************************************************************)
(* State.                                                                  *)
(***************************************************************************)
VARIABLES
  DRY_RUN,      \* "--dry-run" in sys.argv
  elevated,     \* what IsUserAnAdmin answers for this process
  fs,           \* where a tron.bat lies under tron_tmp, as run_tron finds it
  zip,          \* whether tron_tmp/tron.zip exists, as run_tron finds it
  pc,           \* the statement the process is at
  preset, browser, av, tron_choice,   \* main's locals
  options, line, answer,              \* ask's arguments, last input line, result
  printed,      \* what ask printed last: its menu or the invalid-choice message
  caller, pkg, retries, attempt,      \* the winget_install call in progress
  idx,          \* packages of the preset that apply_preset's loop has finished
  ret,          \* return value of the last winget_install call
  trace,        \* commands and sleeps of the winget_install call, in order
  attempted,    \* packages apply_preset handed to winget_install, in order
  calls,        \* per step of main: calls of winget_install (of run_tron) made
  wouldInstall, \* "(dry-run) Would install" lines logged
  nFailed,      \* winget_install calls that returned False
  realCmd,      \* subprocess.run has been executed at least once
  nRelaunch,    \* ShellExecuteW "runas" requests issued
  tronRan,      \* a command executing tron.bat has been run
  dlRc, exRc,   \* return codes of run_tron's download and extraction commands
  tronRet,      \* return value of run_tron
  lastLog,      \* messages logged by the last step
  exitCode      \* exit status of the process, -1 while it runs

vars ==
  << DRY_RUN, elevated, fs, zip, pc, preset, browser, av, tron_choice,
     options, line, answer, printed, caller, pkg, retries, attempt, idx, ret,
     trace, attempted, calls, wouldInstall, nFailed, realCmd, nRelaunch,
     tronRan, dlRc, exRc, tronRet, lastLog, exitCode >>

envVars == << DRY_RUN, elevated >>
diskVars == << fs, zip >>
choiceVars == << preset, browser, av, tron_choice >>
askVars == << options, line, answer >>
callVars == << caller, pkg, retries, attempt, ret, trace >>
tronVars == << tronRan, dlRc, exRc, tronRet >>

\* where a tron.bat can lie: in a first-level subdirectory of tron_tmp, or
\* elsewhere under it (tron_tmp itself or deeper), where only rglob finds it
Locs == { "child", "deep" }

\* what subprocess.run can do to run_cmd: exit 0, exit non-zero, or raise
CmdOutcomes ==
  { [ rc |-> 0, exc |-> FALSE ], [ rc |-> 1, exc |-> FALSE ],
    [ rc |-> 1, exc |-> TRUE ] }

\* run_cmd(cmd, dry_run): the CompletedProcess it returns and what it logs
run_cmd(out, dry_run) ==
  IF dry_run
    THEN [ rc |-> 0, stdout |-> "(dry-run)", executed |-> FALSE, log |-> { "> cmd" } ]
    ELSE [ rc |-> out.rc, stdout |-> "real", executed |-> TRUE,
           log |-> IF out.exc THEN { "> cmd", "error: Command failed" }
                   ELSE { "> cmd", "Return code" } ]

InitCommon ==
  /\ fs = {} /\ zip = FALSE
  /\ preset = "unset" /\ browser = "unset" /\ av = "unset" /\ tron_choice = "unset"
  /\ line = << >> /\ answer = NoneVal /\ printed = "menu"
  /\ attempt = 0
  /\ idx = 0 /\ ret = "none" /\ trace = << >> /\ attempted = << >>
  /\ calls = [ s \in { "preset", "browser", "antivirus", "tron" } |-> 0 ]
  /\ wouldInstall = 0 /\ nFailed = 0 /\ realCmd = FALSE /\ nRelaunch = 0
  /\ tronRan = FALSE /\ dlRc = -1 /\ exRc = -1 /\ tronRet = "none"
  /\ lastLog = {} /\ exitCode = -1

\* the process as main() starts
Init ==
  /\ DRY_RUN \in BOOLEAN
  /\ elevated \in BOOLEAN
  /\ pc = "ask_preset"
  /\ options = << >>
  /\ caller = "none" /\ pkg = NoneVal /\ retries = DefaultRetries
  /\ InitCommon

(***************************************************************************)
(* The prompts of main.                                                    *)
(***************************************************************************)
PresetOutcomes == { AskResult(l, PresetMenu) : l \in Lines }
BrowserOutcomes == { AskResult(l, BrowserLabels) : l \in Lines }
AntivirusOutcomes == { AskResult(l, AntivirusLabels) : l \in Lines }
TronOutcomes == { AskResult(l, TronMenu) : l \in Lines }

\* what one pass of ask's loop does to the process: ask returns to main, the
\* loop goes round, or the ValueError reaches the handler at the bottom of
\* the script, which logs it and re-raises
AskControl(r, next) ==
  /\ pc' = CASE r.kind = "return" -> next
             [] r.kind = "invalid" -> pc
             [] r.kind = "raise" -> "crashed"
  /\ printed' = IF r.kind = "invalid" THEN "invalid" ELSE "menu"
  /\ lastLog' = IF r.kind = "raise" THEN { "error: Unhandled exception" } ELSE {}
  /\ exitCode' = IF r.kind = "raise" THEN 1 ELSE exitCode

AskPreset ==
  /\ pc = "ask_preset"
  /\ \E r \in PresetOutcomes :
       /\ AskControl(r, "ask_browser")
       /\ preset' = IF r.kind # "return" THEN preset
                    ELSE IF r.value = "None" THEN NoneVal ELSE r.value
  /\ UNCHANGED << envVars, diskVars, browser, av, tron_choice, askVars, callVars,
                  idx, attempted, calls, wouldInstall, nFailed, realCmd,
                  nRelaunch, tronVars >>

AskBrowser ==
  /\ pc = "ask_browser"
  /\ \E r \in BrowserOutcomes :
       /\ AskControl(r, "ask_av")
       /\ browser' = IF r.kind = "return" THEN r.value ELSE browser
  /\ UNCHANGED << envVars, diskVars, preset, av, tron_choice, askVars, callVars,
                  idx, attempted, calls, wouldInstall, nFailed, realCmd,
                  nRelaunch, tronVars >>

AskAntivirus ==
  /\ pc = "ask_av"
  /\ \E r \in AntivirusOutcomes :
       /\ AskControl(r, "ask_tron")
       /\ av' = IF r.kind = "return" THEN r.value ELSE av
  /\ UNCHANGED << envVars, diskVars, preset, browser, tron_choice, askVars,
                  callVars, idx, attempted, calls, wouldInstall, nFailed, realCmd,
                  nRelaunch, tronVars >>

AskTron ==
  /\ pc = "ask_tron"
  /\ \E r \in TronOutcomes :
       /\ AskControl(r, "confirm")
       /\ tron_choice' = IF r.kind = "return" THEN r.value ELSE tron_choice
  /\ UNCHANGED << envVars, diskVars, preset, browser, av, askVars, callVars,
                  idx, attempted, calls, wouldInstall, nFailed, realCmd,
                  nRelaunch, tronVars >>

\* the summary is printed and ENTER is pressed
Confirm ==
  /\ pc = "confirm"
  /\ pc' = "elevate"
  /\ lastLog' = {}
  /\ UNCHANGED << envVars, diskVars, choiceVars, askVars, printed, callVars, idx,
                  attempted, calls, wouldInstall, nFailed, realCmd, nRelaunch,
                  tronVars, exitCode >>

\* Ctrl-C while input() waits: KeyboardInterrupt reaches the handler at the
\* bottom of the script
Cancel ==
  /\ pc \in { "ask_preset", "ask_browser", "ask_av", "ask_tron", "confirm" }
  /\ pc' = "canceled"
  /\ lastLog' = { "warning: User canceled." }
  /\ exitCode' = 0
  /\ UNCHANGED << envVars, diskVars, choiceVars, askVars, printed, callVars, idx,
                  attempted, calls, wouldInstall, nFailed, realCmd, nRelaunch,
                  tronVars >>

(***************************************************************************)
(* Elevation.                                                              *)
(***************************************************************************)
is_admin == elevated

\* require_admin without its relaunch and exit: it falls through to the caller
require_admin_NoExit(admin) == "return"

\* require_admin(): return, or ask for the relaunch and exit
require_admin(admin) == IF admin THEN "return" ELSE "relaunch_exit"

Elevate ==
  /\ pc = "elevate"
  /\ IF ~is_admin
       THEN IF DRY_RUN
              THEN /\ lastLog' = { "(dry-run) skipping UAC elevation." }
                   /\ pc' = "preset"
                   /\ UNCHANGED << nRelaunch, exitCode >>
              ELSE IF require_admin(is_admin) = "relaunch_exit"
                     THEN /\ lastLog' = { "Requesting administrative privileges (UAC)..." }
                          /\ nRelaunch' = nRelaunch + 1
                          /\ pc' = "exited"
                          /\ exitCode' = 0
                     ELSE /\ lastLog' = {}
                          /\ pc' = "preset"
                          /\ UNCHANGED << nRelaunch, exitCode >>
       ELSE /\ lastLog' = {}
            /\ pc' = "preset"
            /\ UNCHANGED << nRelaunch, exitCode >>
  /\ UNCHANGED << envVars, diskVars, choiceVars, askVars, printed, callVars, idx,
                  attempted, calls, wouldInstall, nFailed, realCmd, tronVars >>

(***************************************************************************)
(* The winget adapter.                                                     *)
(***************************************************************************)
\* what `winget list --id <pkg_id>` can print, as far as the code looks at it:
\* whether the lower-cased output holds the id, holds "name", and its lines
ListOutputs == [ hasId : BOOLEAN, hasName : BOOLEAN, nlines : 0..3 ]

is_installed_winget(dry, rc, out) ==
  IF dry THEN FALSE
  ELSE IF rc # 0 THEN FALSE
  ELSE out.hasId \/ (out.hasName /\ out.nlines > 2)

\* the loop bound one short: range(1, retries+1)
Attempts_OffByOne(r) == 1..r

\* range(1, retries+2)
Attempts(r) == 1..(r + 1)

Event(e, rc, ans, d) == [ ev |-> e, rc |-> rc, ans |-> ans, d |-> d ]

\* apply_preset leaving its loop at the first package that fails
AfterInstall_BreakOnFailure(c, success) ==
  CASE c = "preset" -> IF success THEN "preset" ELSE "browser"
    [] c = "browser" -> "antivirus"
    [] c = "antivirus" -> "tron"
    [] c = "unit" -> "returned"

\* where control goes when winget_install returns: apply_preset's loop takes
\* the next package whatever the result, install_browser and
\* install_antivirus return to main
AfterInstall(c, success) ==
  CASE c = "preset" -> "preset"
    [] c = "browser" -> "antivirus"
    [] c = "antivirus" -> "tron"
    [] c = "unit" -> "returned"

\* winget_install returns `success` having logged `log`
Return(success, log) ==
  /\ ret' = IF success THEN "True" ELSE "False"
  /\ pc' = AfterInstall(caller, success)
  /\ idx' = IF caller = "preset" THEN idx + 1 ELSE idx
  /\ nFailed' = IF success THEN nFailed ELSE nFailed + 1
  /\ lastLog' = log \cup ( IF caller = "preset" /\ ~success
                             THEN { "warning: Package failed to install" }
                             ELSE {} )

\* a caller invokes winget_install(p) with the default retries
Call(p, c) ==
  /\ pkg' = p
  /\ caller' = c
  /\ retries' = DefaultRetries
  /\ attempt' = 0
  /\ ret' = "none"
  /\ trace' = << >>
  /\ calls' = [ calls EXCEPT ![c] = @ + 1 ]
  /\ pc' = "wi_enter"

\* the dry-run exit without its log line
WingetDry_Silent ==
  /\ Return(TRUE, {})
  /\ UNCHANGED << wouldInstall, trace, realCmd, attempt >>

\* winget_install in a dry run: the intent line and True, nothing else
WingetDry ==
  /\ wouldInstall' = wouldInstall + 1
  /\ Return(TRUE, { "(dry-run) Would install" })
  /\ UNCHANGED << trace, realCmd, attempt >>

\* the already-installed branch without its `return True`: it logs and goes on
\* to the install loop
WingetQuery_NoShortCircuit ==
  \E o \in CmdOutcomes, text \in ListOutputs :
    LET p == run_cmd(o, DRY_RUN)
        inst == is_installed_winget(DRY_RUN, p.rc, text)
    IN  /\ trace' = << Event("list", p.rc, inst, 0) >>
        /\ realCmd' = (realCmd \/ p.executed)
        /\ UNCHANGED wouldInstall
        /\ IF Attempts(retries) = {}
             THEN /\ Return(FALSE, p.log \cup { "error: Failed to install" })
                  /\ UNCHANGED attempt
             ELSE /\ pc' = "wi_attempt"
                  /\ attempt' = 1
                  /\ lastLog' = p.log \cup ( IF inst THEN { "already installed - skipping" }
                                             ELSE {} )
                  /\ UNCHANGED << ret, idx, nFailed >>

\* winget_install in a real run up to the install loop: the list query and
\* the already-installed exit
WingetQuery ==
  \E o \in CmdOutcomes, text \in ListOutputs :
    LET p == run_cmd(o, DRY_RUN)
        inst == is_installed_winget(DRY_RUN, p.rc, text)
    IN  /\ trace' = << Event("list", p.rc, inst, 0) >>
        /\ realCmd' = (realCmd \/ p.executed)
        /\ UNCHANGED wouldInstall
        /\ IF inst
             THEN /\ Return(TRUE, p.log \cup { "already installed - skipping" })
                  /\ UNCHANGED attempt
             ELSE IF Attempts(retries) = {}
               THEN /\ Return(FALSE, p.log \cup { "error: Failed to install" })
                    /\ UNCHANGED attempt
               ELSE /\ pc' = "wi_attempt"
                    /\ attempt' = 1
                    /\ lastLog' = p.log
                    /\ UNCHANGED << ret, idx, nFailed >>

\* the entry of winget_install without the DRY_RUN test
WingetInstallEnter_IgnoresDryRun ==
  /\ pc = "wi_enter"
  /\ WingetQuery
  /\ UNCHANGED << envVars, diskVars, choiceVars, askVars, printed, caller, pkg,
                  retries, attempted, calls, nRelaunch, tronVars, exitCode >>

\* the entry of winget_install
WingetInstallEnter ==
  /\ pc = "wi_enter"
  /\ IF DRY_RUN THEN WingetDry ELSE WingetQuery
  /\ UNCHANGED << envVars, diskVars, choiceVars, askVars, printed, caller, pkg,
                  retries, attempted, calls, nRelaunch, tronVars, exitCode >>

\* one pass of the install loop, and the exit after the last failed attempt
WingetAttempt ==
  /\ pc = "wi_attempt"
  /\ \E o \in CmdOutcomes :
       LET p == run_cmd(o, FALSE)
       IN  /\ realCmd' = (realCmd \/ p.executed)
           /\ IF p.rc = 0
                THEN /\ trace' = Append(trace, Event("install", p.rc, FALSE, 0))
                     /\ Return(TRUE, p.log \cup { "Installed successfully" })
                     /\ UNCHANGED attempt
                ELSE /\ trace' = trace \o << Event("install", p.rc, FALSE, 0),
                                            Event("sleep", 0, FALSE, SleepSecs) >>
                     /\ IF attempt + 1 \in Attempts(retries)
                          THEN /\ attempt' = attempt + 1
                               /\ lastLog' = p.log \cup { "warning: Attempt failed" }
                               /\ UNCHANGED << pc, ret, idx, nFailed >>
                          ELSE /\ Return(FALSE, p.log \cup { "warning: Attempt failed",
                                                            "error: Failed to install" })
                               /\ UNCHANGED attempt
  /\ UNCHANGED << envVars, diskVars, choiceVars, askVars, printed, caller, pkg,
                  retries, attempted, calls, wouldInstall, nRelaunch, tronVars,
                  exitCode >>

(***************************************************************************)
(* The steps of main after elevation.                                      *)
(***************************************************************************)
\* `if preset: apply_preset(preset)`: the head of apply_preset and of each
\* pass of its loop
ApplyPreset ==
  /\ pc = "preset"
  /\ IF preset = NoneVal
       THEN /\ pc' = "browser"
            /\ lastLog' = {}
            /\ UNCHANGED << callVars, calls, attempted >>
       ELSE IF preset \notin DOMAIN PRESETS
         THEN /\ pc' = "browser"
              /\ lastLog' = { "error: Preset not recognized" }
              /\ UNCHANGED << callVars, calls, attempted >>
         ELSE IF idx < Len(PRESETS[preset])
           THEN /\ Call(PRESETS[preset][idx + 1], "preset")
                /\ attempted' = Append(attempted, PRESETS[preset][idx + 1])
                /\ lastLog' = IF idx = 0 THEN { "Applying preset" } ELSE {}
           ELSE /\ pc' = "browser"
                /\ lastLog' = {}
                /\ UNCHANGED << callVars, calls, attempted >>
  /\ UNCHANGED << envVars, diskVars, choiceVars, askVars, printed, idx,
                  wouldInstall, nFailed, realCmd, nRelaunch, tronVars, exitCode >>

\* the label itself taken for the package identifier
Get_LabelAsPackage(table, label) == label

\* dict.get(label)
Get(table, label) == IF label \in DOMAIN table THEN table[label] ELSE NoneVal

InstallBrowser ==
  /\ pc = "browser"
  /\ IF Get(BROWSERS, browser) = NoneVal
       THEN /\ pc' = "antivirus"
            /\ lastLog' = { "Keeping Microsoft Edge as default." }
            /\ UNCHANGED << callVars, calls >>
       ELSE /\ Call(Get(BROWSERS, browser), "browser")
            /\ lastLog' = {}
  /\ UNCHANGED << envVars, diskVars, choiceVars, askVars, printed, idx, attempted,
                  wouldInstall, nFailed, realCmd, nRelaunch, tronVars, exitCode >>

InstallAntivirus ==
  /\ pc = "antivirus"
  /\ IF Get(ANTIVIRUS_OPTIONS, av) = NoneVal
       THEN /\ pc' = "tron"
            /\ lastLog' = { "Skipping antivirus (using Windows Defender)." }
            /\ UNCHANGED << callVars, calls >>
       ELSE /\ Call(Get(ANTIVIRUS_OPTIONS, av), "antivirus")
            /\ lastLog' = {}
  /\ UNCHANGED << envVars, diskVars, choiceVars, askVars, printed, idx, attempted,
                  wouldInstall, nFailed, realCmd, nRelaunch, tronVars, exitCode >>

(***************************************************************************)
(* The Tron fetcher.                                                       *)
(***************************************************************************)
\* the first loop of the search: a first-level subdirectory holding tron.bat
FirstLevel(f) == IF "child" \in f THEN "child" ELSE NoneVal

\* the search taken to succeed: the extracted folder is assumed to be there
Locate_AssumesFound(f) == "child"

\* `found` after both searches: the first loop, then tmp.rglob("tron.bat")
Locate(f) ==
  IF FirstLevel(f) # NoneVal THEN FirstLevel(f)
  ELSE IF f # {} THEN "deep"
  ELSE NoneVal

\* `if tron_choice == "Yes": run_tron(dry_run=DRY_RUN)` up to the download.
\* tmp.mkdir(exist_ok=True) meets whatever an earlier run left in tron_tmp.
Tron ==
  /\ pc = "tron"
  /\ IF tron_choice = "Yes"
       THEN /\ calls' = [ calls EXCEPT !["tron"] = @ + 1 ]
            /\ IF DRY_RUN
                 THEN /\ lastLog' = { "warning: Tron is a heavy cleanup tool",
                                      "(dry-run) Would download and run Tron." }
                      /\ tronRet' = "True"
                      /\ pc' = "finish"
                      /\ UNCHANGED diskVars
                 ELSE /\ lastLog' = { "warning: Tron is a heavy cleanup tool" }
                      /\ tronRet' = "none"
                      /\ pc' = "tron_dl"
                      /\ fs' \in SUBSET Locs
                      /\ zip' \in BOOLEAN
       ELSE /\ pc' = "finish"
            /\ lastLog' = {}
            /\ UNCHANGED << calls, tronRet, diskVars >>
  /\ UNCHANGED << envVars, choiceVars, askVars, printed, caller, pkg, retries,
                  attempt, ret, trace, idx, attempted, wouldInstall, nFailed,
                  realCmd, nRelaunch, tronRan, dlRc, exRc, exitCode >>

\* Invoke-WebRequest -OutFile tron.zip; its result is not looked at
TronDownload ==
  /\ pc = "tron_dl"
  /\ \E o \in CmdOutcomes :
       LET p == run_cmd(o, FALSE)
       IN  /\ dlRc' = p.rc
           /\ zip' = IF p.rc = 0 THEN TRUE ELSE zip
           /\ realCmd' = (realCmd \/ p.executed)
           /\ lastLog' = p.log
  /\ pc' = "tron_extract"
  /\ UNCHANGED << envVars, fs, choiceVars, askVars, printed, callVars, idx,
                  attempted, calls, wouldInstall, nFailed, nRelaunch, tronRan,
                  exRc, tronRet, exitCode >>

\* Expand-Archive -Force into tron_tmp; its result is not looked at.  When it
\* exits 0 it has added the archive's files to what is there; it removes
\* nothing.  A failed extraction, and one without a tron.zip, writes nothing.
TronExtract ==
  /\ pc = "tron_extract"
  /\ \E o \in CmdOutcomes, written \in SUBSET Locs :
       LET p == run_cmd(o, FALSE)
       IN  /\ (~zip) => p.rc # 0
           /\ (p.rc # 0) => written = {}
           /\ exRc' = p.rc
           /\ fs' = fs \cup written
           /\ realCmd' = (realCmd \/ p.executed)
           /\ lastLog' = p.log
  /\ pc' = "tron_locate"
  /\ UNCHANGED << envVars, zip, choiceVars, askVars, printed, callVars, idx,
                  attempted, calls, wouldInstall, nFailed, nRelaunch, tronRan,
                  dlRc, tronRet, exitCode >>

\* the search for tron.bat and the rest of run_tron
TronLocate ==
  /\ pc = "tron_locate"
  /\ IF Locate(fs) = NoneVal
       THEN /\ lastLog' = { "error: Could not find tron.bat after extracting" }
            /\ tronRet' = "False"
            /\ UNCHANGED << tronRan, realCmd >>
       ELSE \E o \in CmdOutcomes :
              LET p == run_cmd(o, FALSE)
              IN  /\ lastLog' = { "Running Tron from" } \cup p.log
                  /\ tronRan' = TRUE
                  /\ realCmd' = (realCmd \/ p.executed)
                  /\ tronRet' = "True"
  /\ pc' = "finish"
  /\ UNCHANGED << envVars, diskVars, choiceVars, askVars, printed, callVars, idx, attempted, calls, wouldInstall,
                  nFailed, nRelaunch, dlRc, exRc, exitCode >>

\* the completion log and the normal end of the process
Finish ==
  /\ pc = "finish"
  /\ pc' = "done"
  /\ lastLog' = { "All requested actions finished." }
  /\ exitCode' = 0
  /\ UNCHANGED << envVars, diskVars, choiceVars, askVars, printed, callVars, idx,
                  attempted, calls, wouldInstall, nFailed, realCmd, nRelaunch,
                  tronVars >>

Next ==
  \/ AskPreset \/ AskBrowser \/ AskAntivirus \/ AskTron
  \/ Confirm \/ Cancel \/ Elevate
  \/ ApplyPreset \/ WingetInstallEnter \/ WingetAttempt
  \/ InstallBrowser \/ InstallAntivirus
  \/ Tron \/ TronDownload \/ TronExtract \/ TronLocate
  \/ Finish

\* a whole run of the script
Spec == Init /\ [][Next]_vars

(***************************************************************************)
(* winget_install(pkg_id, retries) called on its own.                      *)
(***************************************************************************)
InitInstall ==
  /\ DRY_RUN \in BOOLEAN
  /\ elevated = TRUE
  /\ pc = "wi_enter"
  /\ options = << >>
  /\ caller = "unit" /\ pkg \in AllPkgs /\ retries \in 0..MaxRetries
  /\ InitCommon

NextInstall == WingetInstallEnter \/ WingetAttempt

SpecInstall == InitInstall /\ [][NextInstall]_vars

(***************************************************************************)
(* ask(question, options) called on its own, the line read kept.           *)
(***************************************************************************)
InitAsk ==
  /\ DRY_RUN = FALSE
  /\ elevated = TRUE
  /\ pc = "ask"
  /\ options \in Menus
  /\ caller = "none" /\ pkg = NoneVal /\ retries = DefaultRetries
  /\ InitCommon

AskRead ==
  /\ pc = "ask"
  /\ \E l \in Lines :
       LET r == AskResult(l, options)
       IN  /\ line' = l
           /\ answer' = IF r.kind = "return" THEN r.value ELSE answer
           /\ printed' = IF r.kind = "invalid" THEN "invalid" ELSE "menu"
           /\ pc' = CASE r.kind = "return" -> "returned"
                      [] r.kind = "invalid" -> "ask"
                      [] r.kind = "raise" -> "raised"
  /\ UNCHANGED << envVars, diskVars, choiceVars, options, callVars, idx,
                  attempted, calls, wouldInstall, nFailed, realCmd, nRelaunch,
                  tronVars, lastLog, exitCode >>

NextAsk == AskRead

SpecAsk == InitAsk /\ [][NextAsk]_vars

(***************************************************************************)
(* Properties.                                                             *)
(***************************************************************************)
Installs(t) == { i \in 1..Len(t) : t[i].ev = "install" }

NoCalls == \A st \in DOMAIN calls : calls[st] = 0

\* winget_install calls a step makes for the selection it was given
PresetCount == IF preset = NoneVal THEN 0 ELSE Len(PRESETS[preset])
BrowserCount == IF browser = "Edge (keep default)" THEN 0 ELSE 1
AntivirusCount == IF av = "None" THEN 0 ELSE 1
TronCount == IF tron_choice = "Yes" THEN 1 ELSE 0

\* C1: in a dry run every winget_install call returns True, and over the
\* whole run no real command is executed (no list, install, download,
\* extraction or tron.bat) and no elevation request is issued, whatever was
\* selected.
C1_DryRunNoSideEffects ==
  DRY_RUN =>
    /\ ~realCmd
    /\ trace = << >>
    /\ dlRc = -1 /\ exRc = -1 /\ ~tronRan
    /\ nRelaunch = 0 /\ pc # "exited"
    /\ nFailed = 0 /\ ret # "False" /\ tronRet # "False"
    /\ (caller # "none" /\ pc # "wi_enter") => ret = "True"

C1_Witness ==
  /\ DRY_RUN /\ pc = "done"
  /\ preset = "Streamer / Content Creator" /\ browser = "Firefox"
  /\ av = "Avast" /\ tron_choice = "Yes"
  /\ wouldInstall = 9 /\ calls["tron"] = 1 /\ ret = "True" /\ tronRet = "True"

\* C2: in a real run where the list query does not report the package and
\* every install command exits non-zero, winget_install(pkg, retries) runs the
\* install command exactly retries+1 times and returns False, and a sleep of 2
\* lies between any two consecutive attempts.
C2_RetriesThenFalse ==
  ( /\ pc = "returned" /\ ~DRY_RUN
    /\ trace # << >> /\ ~trace[1].ans
    /\ \A i \in Installs(trace) : trace[i].rc # 0 )
  =>
    /\ ret = "False"
    /\ Cardinality(Installs(trace)) = retries + 1
    /\ \A i \in Installs(trace), j \in Installs(trace) :
         i < j => \E k \in (i + 1)..(j - 1) : trace[k].ev = "sleep" /\ trace[k].d = 2
    /\ \A k \in 1..Len(trace) : trace[k].ev = "sleep" => trace[k].d = 2

C2_Witness ==
  /\ pc = "returned" /\ ~DRY_RUN /\ ret = "False"
  /\ retries = 2
  /\ Cardinality(Installs(trace)) = 3
  /\ \A i \in Installs(trace) : trace[i].rc # 0

\* C3: in a real run, when is_installed_winget answers True, winget_install
\* logs the already-installed message, returns True and runs no install
\* command for the package.
C3_AlreadyInstalledSkips ==
  ( ~DRY_RUN /\ trace # << >> /\ trace[1].ev = "list" /\ trace[1].ans )
  =>
    /\ Installs(trace) = {} /\ Len(trace) = 1
    /\ pc # "wi_attempt"
    /\ ret = "True"
    /\ (pc = AfterInstall(caller, TRUE)) => "already installed - skipping" \in lastLog

C3_Witness ==
  /\ ~DRY_RUN /\ pc = "antivirus" /\ caller = "browser" /\ pkg = "Google.Chrome"
  /\ trace # << >> /\ trace[1].ans /\ ret = "True"
  /\ "already installed - skipping" \in lastLog

\* C4: a failed installation never halts the run: whatever packages fail,
\* apply_preset hands every package of the preset to winget_install in list
\* order, the run can always go on until it is done, and then the browser,
\* antivirus and cleanup steps have run and the completion line is logged.
C4_FailureNeverHalts ==
  /\ (preset \in DOMAIN PRESETS) =>
        /\ Len(attempted) <= Len(PRESETS[preset])
        /\ attempted = SubSeq(PRESETS[preset], 1, Len(attempted))
  /\ (nFailed > 0) =>
        /\ pc \notin { "crashed", "canceled", "exited" }
        /\ exitCode \in { -1, 0 }
        /\ (pc = "done" \/ ENABLED Next)
  /\ (pc = "done") =>
        /\ (preset \in DOMAIN PRESETS) => attempted = PRESETS[preset]
        /\ calls["browser"] = BrowserCount
        /\ calls["antivirus"] = AntivirusCount
        /\ calls["tron"] = TronCount
        /\ "All requested actions finished." \in lastLog
        /\ exitCode = 0

C4_Witness ==
  /\ pc = "done" /\ ~DRY_RUN
  /\ preset = "Streamer / Content Creator"
  /\ nFailed = 9 /\ calls["tron"] = 1 /\ tronRan

\* C5: a selection that maps to no package makes its step call winget_install
\* zero times (preset None, browser "Edge (keep default)", antivirus "None"),
\* and every other step still runs according to its own selection.
C5_NoPackageNoInstall ==
  /\ (preset = NoneVal) => (calls["preset"] = 0 /\ attempted = << >>)
  /\ (browser = "Edge (keep default)") => calls["browser"] = 0
  /\ (av = "None") => calls["antivirus"] = 0
  /\ (pc = "done") =>
        /\ calls["preset"] = PresetCount
        /\ calls["browser"] = BrowserCount
        /\ calls["antivirus"] = AntivirusCount
        /\ calls["tron"] = TronCount

C5_Witness ==
  /\ pc = "done"
  /\ preset = NoneVal /\ browser = "Edge (keep default)" /\ av = "None"
  /\ tron_choice = "Yes" /\ calls["tron"] = 1
  /\ calls["preset"] = 0 /\ calls["browser"] = 0 /\ calls["antivirus"] = 0

\* C6: a dry run logs one "would install" line per package of the preset plus
\* one for the browser and one for the antivirus when they map to a package;
\* Developer, Chrome, None, No gives 5 lines for the preset, 1 for Chrome, none
\* for the antivirus, no cleanup action, and completes without elevation.
C6_DryRunLineCount ==
  DRY_RUN =>
    /\ (pc = "browser") => wouldInstall = PresetCount
    /\ (pc = "done") => wouldInstall = PresetCount + BrowserCount + AntivirusCount
    /\ ( preset = "Developer" /\ browser = "Chrome" /\ av = "None"
         /\ tron_choice = "No" ) =>
          /\ (pc = "browser") => wouldInstall = 5
          /\ (pc = "antivirus") => wouldInstall = 6
          /\ (pc = "done") =>
                /\ wouldInstall = 6
                /\ calls = [ st \in DOMAIN calls |->
                             CASE st = "preset" -> 5 [] st = "browser" -> 1
                               [] st = "antivirus" -> 0 [] st = "tron" -> 0 ]
                /\ nRelaunch = 0 /\ ~realCmd /\ exitCode = 0

C6_Witness ==
  /\ DRY_RUN /\ ~elevated /\ pc = "done"
  /\ preset = "Developer" /\ browser = "Chrome" /\ av = "None" /\ tron_choice = "No"
  /\ wouldInstall = 6

\* C7: in a real run of run_tron, when no tron.bat lies anywhere under the
\* scratch directory after the extraction step, run_tron logs an error and
\* returns False and no command executing tron.bat is run.
C7_NoTronBatNoRun ==
  ( ~DRY_RUN /\ calls["tron"] = 1 /\ pc \in { "finish", "done" } /\ fs = {} )
  =>
    /\ tronRet = "False"
    /\ ~tronRan
    /\ (pc = "finish") => lastLog = { "error: Could not find tron.bat after extracting" }

C7_Witness ==
  /\ ~DRY_RUN /\ calls["tron"] = 1 /\ pc = "finish" /\ fs = {}
  /\ dlRc = 0 /\ exRc = 0 /\ tronRet = "False"

\* C8: in a real run of run_tron, after the download command or the
\* extraction command has exited non-zero, tron.bat is not executed.
C8_FailedFetchAborts ==
  ( pc \in { "finish", "done" } /\ (dlRc > 0 \/ exRc > 0) ) => ~tronRan

\* C9: a real run that is not elevated issues exactly one relaunch request
\* after the confirmation and exits with code 0, having run no list, install,
\* download or cleanup command; an elevated process issues no relaunch request.
C9_ElevationHandoff ==
  /\ (~DRY_RUN /\ ~elevated) =>
        /\ ~realCmd /\ NoCalls /\ ~tronRan /\ dlRc = -1 /\ exRc = -1
        /\ pc \in { "ask_preset", "ask_browser", "ask_av", "ask_tron", "confirm",
                    "elevate", "exited", "canceled", "crashed" }
        /\ (pc = "exited") <=> (nRelaunch = 1)
        /\ nRelaunch <= 1
        /\ (pc = "exited") => exitCode = 0
  /\ elevated => (nRelaunch = 0 /\ pc # "exited")
  /\ realCmd => elevated

C9_Witness ==
  /\ ~DRY_RUN /\ ~elevated /\ pc = "exited" /\ nRelaunch = 1 /\ exitCode = 0
  /\ preset = "Gamer" /\ tron_choice = "Yes" /\ ~realCmd

\* C10: whatever lines are typed, ask returns only on a line that parses as an
\* integer k with 1 <= k <= N, and then returns the k-th option; on every
\* other line it prints the invalid-choice message and reads again.
C10_AskRejectsInvalid ==
  LET p == PyInt(line)
      valid == p.ok /\ 1 <= p.val /\ p.val <= Len(options)
  IN  /\ (pc = "returned") => (valid /\ answer = options[p.val])
      /\ (~valid) => (pc = "ask" /\ (printed = "invalid" \/ line = << >>))

=============================================================================
